---- MODULE Spec2Model ----
(***************************************************************************)
(* Model of the playback queue and transport of amp.py: the MusicPlayer    *)
(* window's queue (folderAudioFiles), cursor (current_index), playback     *)
(* modes, metadata cache, and the VLCMediaPlayer adapter it drives.        *)
(* Indices are 0-based as in the Python source; TLA+ sequences are 1-based *)
(* so element i of a Python list q is q[i + 1].                            *)
(***************************************************************************)
EXTENDS Integers, Sequences, FiniteSets, TLC

VARIABLES
    folderAudioFiles,   \* self.folderAudioFiles: list of paths
    current_index,      \* self.current_index
    loop_mode,          \* self.loop_mode: 0 Off, 1 All, 2 One
    shuffle,            \* self.shuffle
    trackMetadata,      \* self.trackMetadata: index -> file the metadata was read from
    current_media,      \* VLCMediaPlayer._current_media ("" before the first set_media)
    engine_playing,     \* VLCMediaPlayer.is_playing()
    engine_failed,      \* the engine could not open current_media (libvlc state Error)
    playButtonIcon,     \* icon of self.playButton: "play" or "pause"
    shuffleButtonText,  \* text of self.shuffleButton
    loopButtonText,     \* text of self.loopButton
    fileDockVisible,    \* self.fileDock is shown (the tree can be double-clicked)
    mediaEndedQueue,    \* mediaEnded signals emitted by the engine thread, not yet delivered
    endedFor,           \* history: per queued signal, the media that had ended
    err,                \* exception the last handler left with ("none" if it returned)
    alive,              \* FALSE once an unhandled exception has aborted the process
    lastOp,             \* history: the handler that ran last
    lastNav,            \* history: last cursor-moving handler ("next", "previous", "other")
    idxBefore,          \* history: current_index before that handler
    nextRun,            \* history: length of the current run of next_track calls
    runStart,           \* history: current_index when that run started
    mutagenPresent,     \* MutagenFile is not None (the tag library was imported)
    tagFile,            \* a file handed to extractMetadata
    tagResult,          \* what extractMetadata returned for it
    dirFolder,          \* a folder handed to open_folder's queue construction
    dirMeta             \* the metadata its loop read, per file it visited

progVars == <<folderAudioFiles, current_index, loop_mode, shuffle, trackMetadata,
              current_media, engine_playing, engine_failed, playButtonIcon, shuffleButtonText,
              loopButtonText, fileDockVisible, mediaEndedQueue, endedFor>>
navVars == <<lastNav, idxBefore, nextRun, runStart>>
pureVars == <<mutagenPresent, tagFile, tagResult, dirFolder, dirMeta>>
vars == <<folderAudioFiles, current_index, loop_mode, shuffle, trackMetadata,
          current_media, engine_playing, engine_failed, playButtonIcon, shuffleButtonText,
          loopButtonText, fileDockVisible, mediaEndedQueue, endedFor, err, alive, lastOp,
          lastNav, idxBefore, nextRun, runStart,
          mutagenPresent, tagFile, tagResult, dirFolder, dirMeta>>

----------------------------------------------------------------------------
(* Bounds *)

\* most mediaEnded signals that may be queued at once
MaxPending == 2

\* most entries os.listdir returns for a folder
MaxListing == 3

\* most tag frames of a file
MaxFrames == 3

----------------------------------------------------------------------------
(* The file system the dialogs and the tree view can name *)

AudioPaths == {"/m/B.MP3", "/m/a.mp3", "/m/c.flac"}
TreeEntries == AudioPaths \cup {"/m/n.txt", "/m/sub", "/m/dir.mp3"}

\* os.path.isfile
IsFile == [p \in TreeEntries |-> p \notin {"/m/sub", "/m/dir.mp3"}]

\* the extension of each path after str.lower()
LowerExt == [p \in TreeEntries |->
               CASE p = "/m/B.MP3" -> ".mp3"
                 [] p = "/m/a.mp3" -> ".mp3"
                 [] p = "/m/c.flac" -> ".flac"
                 [] p = "/m/n.txt" -> ".txt"
                 [] p = "/m/sub" -> ""
                 [] p = "/m/dir.mp3" -> ".mp3"]

audio_extensions == {".mp3", ".wav", ".ogg", ".flac"}

\* f.lower().endswith(audio_extensions)
HasAudioExt(p) == LowerExt[p] \in audio_extensions

\* position of each path in Python's ordering of str (code point order:
\* upper case letters sort before lower case ones)
LexRank == [p \in TreeEntries |->
              CASE p = "/m/B.MP3" -> 1
                [] p = "/m/a.mp3" -> 2
                [] p = "/m/c.flac" -> 3
                [] p = "/m/dir.mp3" -> 4
                [] p = "/m/n.txt" -> 5
                [] p = "/m/sub" -> 6]

\* Python values that may be None
None == [none |-> TRUE, str |-> <<>>]
Str(s) == [none |-> FALSE, str |-> s]

\* A tag frame as the loop of extractMetadata sees it: the key in audio.tags
\* is id followed by desc ("APIC:cover"), text is str(frame) (frame.data for
\* a picture), fails tells that reading the frame raises.
Frame(id, desc, text, fails) == [id |-> id, desc |-> desc, text |-> text, fails |-> fails]

\* tag.startswith(prefix), prefix being a four-letter frame id
StartsWith(frame, prefix) == frame.id = prefix

\* A file as MutagenFile finds it: parse is "ok", "raises" (MutagenFile
\* raises: unreadable, a directory) or "none" (MutagenFile returns None:
\* unknown format); frames are audio.tags in iteration order.
TagFile(parse, frames) == [parse |-> parse, frames |-> frames]
UntaggedFile == TagFile("ok", <<>>)
UnreadableFile == TagFile("raises", <<>>)

\* a file whose only frame is a TRCK frame of the given text (None: no tags)
FileOfTrck(raw) ==
    IF raw.none THEN UntaggedFile
    ELSE TagFile("ok", <<Frame("TRCK", "", raw.str, FALSE)>>)

\* A folder as open_folder finds it: os.listdir's result (in listing order)
\* and what each entry holds; given here by the raw TRCK text per file.
Folder(listing, trck) ==
    [listing |-> listing, files |-> [p \in DOMAIN trck |-> FileOfTrck(trck[p])]]

NoTrck == [p \in TreeEntries |-> None]

Folders ==
    { Folder(<<>>, NoTrck),
      Folder(<<"/m/n.txt">>, NoTrck),
      Folder(<<"/m/a.mp3">>, NoTrck),
      Folder(<<"/m/a.mp3", "/m/n.txt", "/m/B.MP3", "/m/c.flac">>,
             [NoTrck EXCEPT !["/m/c.flac"] = Str(<<"1", "/", "3">>),
                            !["/m/a.mp3"] = Str(<<"2", "/", "3">>),
                            !["/m/B.MP3"] = Str(<<"1", "0">>)]),
      Folder(<<"/m/c.flac", "/m/a.mp3">>,
             [NoTrck EXCEPT !["/m/c.flac"] = Str(<<"1">>),
                            !["/m/a.mp3"] = Str(<<" ", "1", " ", "/", "2">>)]),
      Folder(<<"/m/c.flac", "/m/a.mp3", "/m/B.MP3">>,
             [NoTrck EXCEPT !["/m/c.flac"] = Str(<<"1">>),
                            !["/m/a.mp3"] = Str(<<"2">>)]),
      Folder(<<"/m/a.mp3", "/m/B.MP3">>,
             [NoTrck EXCEPT !["/m/a.mp3"] = Str(<<"x">>),
                            !["/m/B.MP3"] = Str(<<"1">>)]) }

----------------------------------------------------------------------------
(* Python list and dict primitives *)

\* list[i] raises IndexError unless -len <= i < len
PyIndexOk(q, i) == i >= 0 - Len(q) /\ i < Len(q)
PyGet(q, i) == IF i >= 0 THEN q[i + 1] ELSE q[Len(q) + i + 1]

\* list.index(x): position of the first occurrence (ValueError if absent)
InList(q, x) == \E k \in 1..Len(q) : q[k] = x
\* variant: the 1-based position
ListIndexOneBased(q, x) == CHOOSE k \in 1..Len(q) :
                              q[k] = x /\ \A j \in 1..(k - 1) : q[j] # x

ListIndex(q, x) == (CHOOSE k \in 1..Len(q) :
                       q[k] = x /\ \A j \in 1..(k - 1) : q[j] # x) - 1

EmptyDict == [k \in {} |-> ""]
DictSet(d, k, v) == [j \in (DOMAIN d) \cup {k} |-> IF j = k THEN v ELSE d[j]]

----------------------------------------------------------------------------
(* Track number: extractMetadata's 'track' field and open_folder's int() *)

IsSpace(ch) == ch = " "

RECURSIVE BeforeSlash(_)
\* track_str.split('/')[0]
BeforeSlash(s) ==
    IF s = <<>> \/ Head(s) = "/" THEN <<>>
    ELSE <<Head(s)>> \o BeforeSlash(Tail(s))

RECURSIVE LStrip(_)
LStrip(s) == IF s # <<>> /\ IsSpace(Head(s)) THEN LStrip(Tail(s)) ELSE s

RECURSIVE RStrip(_)
RStrip(s) == IF s # <<>> /\ IsSpace(s[Len(s)])
             THEN RStrip(SubSeq(s, 1, Len(s) - 1)) ELSE s

\* str.strip()
Strip(s) == RStrip(LStrip(s))

\* the 'track' field extractMetadata returns for a file whose TRCK text is raw
TrackField(raw) == IF raw.none THEN None ELSE Str(Strip(BeforeSlash(raw.str)))

Digits == {"0", "1", "2", "3"}
DigitVal(ch) == CASE ch = "0" -> 0 [] ch = "1" -> 1 [] ch = "2" -> 2 [] ch = "3" -> 3

\* int(track) succeeds on a non-empty run of decimal digits (ValueError otherwise)
IntOk(s) == s # <<>> /\ \A k \in 1..Len(s) : s[k] \in Digits

RECURSIVE IntVal(_)
IntVal(s) == IF s = <<>> THEN 0
             ELSE 10 * IntVal(SubSeq(s, 1, Len(s) - 1)) + DigitVal(s[Len(s)])

----------------------------------------------------------------------------
(* MusicPlayer.extractMetadata *)

AllNone == [title |-> None, artist |-> None, album |-> None,
            year |-> None, artwork |-> None, track |-> None]

\* variant: the outer handler returns what the loop had collected
OnFrameErrorPartial(acc) == acc

\* the outer except: every field None, whatever the loop had collected
OnFrameError(acc) == AllNone

\* the assignment a matching frame makes; a later match overwrites an earlier
SetField(acc, field, frame) == [acc EXCEPT ![field] = Str(frame.text)]

RECURSIVE TagLoop(_, _)
\* for tag in audio.tags.keys(): ... ; return {...}
TagLoop(frames, acc) ==
    IF frames = <<>> THEN acc
    ELSE LET f == Head(frames)
             rest == Tail(frames)
             field == IF StartsWith(f, "TIT2") THEN "title"
                      ELSE IF StartsWith(f, "TPE1") THEN "artist"
                      ELSE IF StartsWith(f, "TALB") THEN "album"
                      ELSE IF StartsWith(f, "TDRC") \/ StartsWith(f, "TYER") THEN "year"
                      ELSE IF StartsWith(f, "APIC") THEN "artwork"
                      ELSE IF StartsWith(f, "TRCK") THEN "track"
                      ELSE "none"
         IN  IF field = "none" THEN TagLoop(rest, acc)
             ELSE IF field = "track"
             THEN \* the inner try: a failure only leaves track = None
                  TagLoop(rest, [acc EXCEPT !.track =
                                    IF f.fails THEN None ELSE TrackField(Str(f.text))])
             ELSE IF f.fails THEN OnFrameError(acc)
             ELSE TagLoop(rest, SetField(acc, field, f))

extractMetadata(lib, file) ==
    IF ~lib THEN AllNone
    ELSE IF file.parse # "ok" THEN AllNone
    ELSE IF file.frames = <<>> THEN AllNone
    ELSE TagLoop(file.frames, AllNone)

----------------------------------------------------------------------------
(* sorted(): stable insertion by key *)

RECURSIVE InsertByKey(_, _, _)
\* insert x after every element whose key is <= key[x]
InsertByKey(sortedSeq, x, key) ==
    IF sortedSeq = <<>> THEN <<x>>
    ELSE IF key[Head(sortedSeq)] <= key[x]
         THEN <<Head(sortedSeq)>> \o InsertByKey(Tail(sortedSeq), x, key)
         ELSE <<x>> \o sortedSeq

RECURSIVE SortedByKey(_, _)
SortedByKey(s, key) ==
    IF s = <<>> THEN <<>>
    ELSE InsertByKey(SortedByKey(SubSeq(s, 1, Len(s) - 1), key), s[Len(s)], key)

RECURSIVE FilterAudio(_)
\* [f for f in all_files if f.lower().endswith(audio_extensions)]
FilterAudio(listing) ==
    IF listing = <<>> THEN <<>>
    ELSE IF HasAudioExt(Head(listing))
         THEN <<Head(listing)>> \o FilterAudio(Tail(listing))
         ELSE FilterAudio(Tail(listing))

\* whether int(track) gives open_folder a track number
HasTrackNumber(t) == ~t.none /\ t.str # <<>> /\ IntOk(t.str)

\* the 'track' field open_folder's loop reads for a path
TrackOf(lib, folder, p) == extractMetadata(lib, folder.files[p]).track

\* the queue open_folder builds from a folder
BuildQueueWith(lib, folder) ==
    LET files_with_path == FilterAudio(folder.listing)
        track(p) == TrackOf(lib, folder, p)
        all_have_track ==
            \A k \in 1..Len(files_with_path) :
                HasTrackNumber(track(files_with_path[k]))
        track_info == [p \in TreeEntries |->
                          IF HasTrackNumber(track(p))
                          THEN IntVal(track(p).str) ELSE 0]
    IN  IF all_have_track
        THEN SortedByKey(files_with_path, track_info)
        ELSE SortedByKey(files_with_path, LexRank)

BuildQueue(folder) == BuildQueueWith(mutagenPresent, folder)

\* the files open_folder's loop has called extractMetadata for: every
\* candidate up to and including the first without a track number
RECURSIVE Visited(_, _, _)
Visited(lib, folder, files) ==
    IF files = <<>> THEN {}
    ELSE IF HasTrackNumber(TrackOf(lib, folder, Head(files)))
         THEN {Head(files)} \cup Visited(lib, folder, Tail(files))
         ELSE {Head(files)}

----------------------------------------------------------------------------
(* How a handler ends *)

\* the handler returned normally
Returns == err' = "none" /\ alive' = TRUE

\* the handler left with an unhandled exception: PyQt either aborts the
\* process or (older PyQt, or an installed sys.excepthook) reports and goes on
Raises(e) == err' = e /\ alive' \in BOOLEAN

\* A behaviour records either which handler ran last (lastOp) or, when
\* lastOp starts as NoOp, which media each queued mediaEnded signal was
\* emitted for (endedFor).
NoOp == "-"
Op(name) == IF lastOp = NoOp THEN NoOp ELSE name

ResetNav == lastNav' = "other" /\ idxBefore' = 0 /\ nextRun' = 0 /\ runStart' = 0

----------------------------------------------------------------------------
(* updateTrackInfo on the state a handler has produced *)

UpdateTrackInfoOk(q, i) == PyIndexOk(q, i)
UpdateTrackInfoCache(q, i, tm) == DictSet(tm, i, PyGet(q, i))

\* updatePlaybackMode: the button texts of the flags
ShuffleText(s) == IF s THEN "On" ELSE "Off"
LoopText(m) == CASE m = 0 -> "Off" [] m = 1 -> "All" [] m = 2 -> "One"

----------------------------------------------------------------------------

InitPlayer ==
    /\ folderAudioFiles = <<>>
    /\ current_index = 0
    /\ loop_mode = 0
    /\ shuffle = FALSE
    /\ trackMetadata = EmptyDict
    /\ current_media = ""
    /\ engine_playing = FALSE
    /\ engine_failed = FALSE
    /\ playButtonIcon = "play"
    /\ shuffleButtonText = ShuffleText(FALSE)
    /\ loopButtonText = LoopText(0)
    /\ fileDockVisible = FALSE
    /\ mediaEndedQueue = 0
    /\ endedFor = <<>>
    /\ err = "none"
    /\ alive = TRUE
    /\ lastNav = "other"
    /\ idxBefore = 0
    /\ nextRun = 0
    /\ runStart = 0

\* nothing handed to extractMetadata or to the queue construction yet
NoTagResult == [done |-> FALSE, meta |-> AllNone]
NoDirMeta == [done |-> FALSE, metas |-> [p \in {} |-> AllNone]]

Init ==
    /\ InitPlayer
    /\ lastOp = "__init__"
    /\ mutagenPresent = TRUE
    /\ tagFile = UntaggedFile
    /\ tagResult = NoTagResult
    /\ dirFolder = Folder(<<>>, NoTrck)
    /\ dirMeta = NoDirMeta

----------------------------------------------------------------------------
(* MusicPlayer.open_folder *)

\* a file dialog was cancelled (it returned ""): nothing happens
DialogCancelled ==
    /\ err' = "none" /\ alive' = TRUE
    /\ UNCHANGED progVars
    /\ UNCHANGED navVars

\* a folder was chosen
OpenFolderChosen(folder) ==
    LET sorted_files == BuildQueue(folder)
    IN  /\ fileDockVisible' = TRUE
        /\ folderAudioFiles' = sorted_files
        /\ IF sorted_files # <<>>
           THEN /\ current_index' = 0
                /\ current_media' = sorted_files[1]
                /\ trackMetadata' = UpdateTrackInfoCache(sorted_files, 0, EmptyDict)
                /\ engine_failed' = FALSE
                /\ UNCHANGED <<engine_playing, playButtonIcon>>
                /\ Returns
           ELSE \* mediaPlayer.stop(), play icon, then self.resetTrackInfo(),
                \* which MusicPlayer does not define
                /\ engine_playing' = FALSE
                /\ engine_failed' = FALSE
                /\ playButtonIcon' = "play"
                /\ trackMetadata' = EmptyDict
                /\ UNCHANGED <<current_index, current_media>>
                /\ Raises("AttributeError")
        /\ UNCHANGED <<loop_mode, shuffle, shuffleButtonText, loopButtonText,
                       mediaEndedQueue, endedFor>>
        /\ ResetNav

open_folder ==
    /\ alive
    /\ UNCHANGED pureVars
    /\ lastOp' = Op("open_folder")
    /\ \/ DialogCancelled
       \/ \E folder \in Folders : OpenFolderChosen(folder)

----------------------------------------------------------------------------
(* MusicPlayer.open_file *)

OpenFileChosen(file_path) ==
    /\ folderAudioFiles' = <<file_path>>
    /\ current_index' = 0
    /\ current_media' = file_path
    /\ engine_playing' = TRUE
    /\ engine_failed' = FALSE
    /\ playButtonIcon' = "pause"
    /\ trackMetadata' = UpdateTrackInfoCache(<<file_path>>, 0, trackMetadata)
    /\ UNCHANGED <<loop_mode, shuffle, shuffleButtonText, loopButtonText,
                   fileDockVisible, mediaEndedQueue, endedFor>>
    /\ Returns
    /\ ResetNav

open_file ==
    /\ alive
    /\ UNCHANGED pureVars
    /\ lastOp' = Op("open_file")
    /\ \/ DialogCancelled
       \/ \E file_path \in AudioPaths : OpenFileChosen(file_path)

----------------------------------------------------------------------------
(* MusicPlayer.onFileTreeDoubleClicked *)

DoubleClicked(file_path) ==
    /\ IF IsFile[file_path] /\ HasAudioExt(file_path)
       THEN LET found == InList(folderAudioFiles, file_path)
                idx == IF found THEN ListIndex(folderAudioFiles, file_path)
                       ELSE Len(folderAudioFiles)
                queue == IF found THEN folderAudioFiles
                         ELSE Append(folderAudioFiles, file_path)
            IN  /\ folderAudioFiles' = queue
                /\ current_index' = idx
                /\ current_media' = file_path
                /\ engine_playing' = TRUE
                /\ engine_failed' = FALSE
                /\ playButtonIcon' = "pause"
                /\ IF UpdateTrackInfoOk(queue, idx)
                   THEN /\ trackMetadata' = UpdateTrackInfoCache(queue, idx,
                                                DictSet(trackMetadata, idx, file_path))
                        /\ Returns
                   ELSE /\ trackMetadata' = DictSet(trackMetadata, idx, file_path)
                        /\ Raises("IndexError")
       ELSE \* not an audio file: only updateTrackInfo runs
            /\ IF UpdateTrackInfoOk(folderAudioFiles, current_index)
               THEN /\ trackMetadata' = UpdateTrackInfoCache(folderAudioFiles,
                                            current_index, trackMetadata)
                    /\ Returns
               ELSE /\ UNCHANGED trackMetadata
                    /\ Raises("IndexError")
            /\ UNCHANGED <<folderAudioFiles, current_index, current_media,
                           engine_playing, engine_failed, playButtonIcon>>
    /\ UNCHANGED <<loop_mode, shuffle, shuffleButtonText, loopButtonText,
                   fileDockVisible, mediaEndedQueue, endedFor>>
    /\ ResetNav

onFileTreeDoubleClicked ==
    /\ alive
    /\ UNCHANGED pureVars
    /\ fileDockVisible
    /\ lastOp' = Op("onFileTreeDoubleClicked")
    /\ \E file_path \in TreeEntries : DoubleClicked(file_path)

----------------------------------------------------------------------------
(* MusicPlayer.next_track, MusicPlayer.previous_track *)

\* variant: next_track stays on the last index instead of wrapping
NextIndexNoWrap(i, n) == IF i + 1 >= n THEN i ELSE i + 1

NextIndex(i, n) == (i + 1) % n

\* variant: previous_track stays on index 0 instead of wrapping
PrevIndexClamp(i, n) == IF i = 0 THEN 0 ELSE i - 1

PrevIndex(i, n) == (i - 1) % n

next_track ==
    /\ alive
    /\ UNCHANGED pureVars
    /\ lastOp' = Op("next_track")
    /\ IF folderAudioFiles # <<>>
       THEN LET n == Len(folderAudioFiles)
                i == NextIndex(current_index, n)
                continues == lastNav = "next" /\ nextRun > 0 /\ nextRun < n
            IN  /\ current_index' = i
                /\ current_media' = PyGet(folderAudioFiles, i)
                /\ engine_playing' = TRUE
                /\ engine_failed' = FALSE
                /\ playButtonIcon' = "pause"
                /\ trackMetadata' = UpdateTrackInfoCache(folderAudioFiles, i, trackMetadata)
                /\ lastNav' = "next"
                /\ idxBefore' = current_index
                /\ nextRun' = IF continues THEN nextRun + 1 ELSE 1
                /\ runStart' = IF continues THEN runStart ELSE current_index
       ELSE /\ UNCHANGED <<current_index, current_media, engine_playing, engine_failed,
                           playButtonIcon, trackMetadata>>
            /\ UNCHANGED navVars
    /\ UNCHANGED <<folderAudioFiles, loop_mode, shuffle, shuffleButtonText,
                   loopButtonText, fileDockVisible, mediaEndedQueue, endedFor>>
    /\ Returns

previous_track ==
    /\ alive
    /\ UNCHANGED pureVars
    /\ lastOp' = Op("previous_track")
    /\ IF folderAudioFiles # <<>>
       THEN LET n == Len(folderAudioFiles)
                i == PrevIndex(current_index, n)
            IN  /\ current_index' = i
                /\ current_media' = PyGet(folderAudioFiles, i)
                /\ engine_playing' = TRUE
                /\ engine_failed' = FALSE
                /\ playButtonIcon' = "pause"
                /\ trackMetadata' = UpdateTrackInfoCache(folderAudioFiles, i, trackMetadata)
                /\ lastNav' = "previous"
                /\ idxBefore' = current_index
                /\ nextRun' = 0
                /\ runStart' = 0
       ELSE /\ UNCHANGED <<current_index, current_media, engine_playing, engine_failed,
                           playButtonIcon, trackMetadata>>
            /\ UNCHANGED navVars
    /\ UNCHANGED <<folderAudioFiles, loop_mode, shuffle, shuffleButtonText,
                   loopButtonText, fileDockVisible, mediaEndedQueue, endedFor>>
    /\ Returns

----------------------------------------------------------------------------
(* VLCMediaPlayer._on_media_end: the engine thread reports that the media  *)
(* it was playing has ended; the signal is queued for the control thread.  *)

on_media_end ==
    /\ alive
    /\ UNCHANGED pureVars
    /\ engine_playing
    /\ mediaEndedQueue < MaxPending
    /\ engine_playing' = FALSE
    /\ engine_failed' = FALSE
    /\ mediaEndedQueue' = mediaEndedQueue + 1
    /\ endedFor' = IF lastOp = NoOp THEN Append(endedFor, current_media) ELSE endedFor
    /\ UNCHANGED <<folderAudioFiles, current_index, loop_mode, shuffle,
                   trackMetadata, current_media, playButtonIcon,
                   shuffleButtonText, loopButtonText, fileDockVisible>>
    /\ UNCHANGED <<err, alive, lastOp>>
    /\ UNCHANGED navVars

----------------------------------------------------------------------------
(* The engine cannot open the media it was told to play. set_media and     *)
(* play return before the file is opened; the failure is an engine event   *)
(* (MediaPlayerEncounteredError) and VLCMediaPlayer attaches a callback to *)
(* MediaPlayerEndReached only, so nothing is told to the control thread.   *)

\* the files the engine may fail to open (damaged, or removed since listed)
Unplayable == {"/m/c.flac"}

engine_error ==
    /\ alive
    /\ engine_playing
    /\ current_media \in Unplayable
    /\ engine_playing' = FALSE
    /\ engine_failed' = TRUE
    /\ UNCHANGED <<folderAudioFiles, current_index, loop_mode, shuffle,
                   trackMetadata, current_media, playButtonIcon,
                   shuffleButtonText, loopButtonText, fileDockVisible,
                   mediaEndedQueue, endedFor>>
    /\ UNCHANGED <<err, alive, lastOp>>
    /\ UNCHANGED navVars
    /\ UNCHANGED pureVars

----------------------------------------------------------------------------
(* MusicPlayer.handle_media_ended: a queued mediaEnded signal is delivered *)

\* set_media(folderAudioFiles[i]); play(); updateTrackInfo()
LoadAndPlay(i) ==
    /\ current_index' = i
    /\ IF PyIndexOk(folderAudioFiles, i)
       THEN /\ current_media' = PyGet(folderAudioFiles, i)
            /\ engine_playing' = TRUE
            /\ engine_failed' = FALSE
            /\ trackMetadata' = UpdateTrackInfoCache(folderAudioFiles, i, trackMetadata)
            /\ Returns
       ELSE /\ UNCHANGED <<current_media, engine_playing, engine_failed, trackMetadata>>
            /\ Raises("IndexError")
    /\ UNCHANGED playButtonIcon

\* variant: the first index is never drawn
RandomIndicesSkipFirst(n) == 1..(n - 1)

\* random.randint(0, n - 1): any index of the range (ValueError when n = 0)
RandomIndices(n) == 0..(n - 1)

\* variant: the bound test is off by one, the end of the queue is not seen
SequentialStopsLate(i, n, mode) == i + 1 > n /\ mode # 1

\* whether the sequential branch stops playback (queue exhausted, not loop All)
SequentialStops(i, n, mode) == i + 1 >= n /\ mode # 1

\* variant: the cursor is not stepped back when the queue is exhausted
SequentialIndexNoStepBack(i, n, mode) ==
    IF i + 1 >= n
    THEN IF mode = 1 THEN 0 ELSE i + 1
    ELSE i + 1

\* variant: loop All does not wrap to the first track
SequentialIndexNoWrap(i, n, mode) ==
    IF i + 1 >= n
    THEN (i + 1) - 1
    ELSE i + 1

\* the index the sequential branch leaves in current_index
SequentialIndex(i, n, mode) ==
    IF i + 1 >= n
    THEN IF mode = 1 THEN 0 ELSE (i + 1) - 1
    ELSE i + 1

\* variant: shuffle is tested before loop One
EndBranchShuffleFirst(mode, shuf) ==
    IF shuf THEN "shuffle" ELSE IF mode = 2 THEN "one" ELSE "sequential"

\* which branch of the if / elif / else runs
EndBranch(mode, shuf) ==
    IF mode = 2 THEN "one" ELSE IF shuf THEN "shuffle" ELSE "sequential"

handle_media_ended ==
    /\ alive
    /\ UNCHANGED pureVars
    /\ lastOp' = Op("handle_media_ended")
    /\ mediaEndedQueue > 0
    /\ mediaEndedQueue' = mediaEndedQueue - 1
    /\ endedFor' = IF lastOp = NoOp THEN Tail(endedFor) ELSE endedFor
    /\ LET n == Len(folderAudioFiles)
           branch == EndBranch(loop_mode, shuffle)
       IN  IF branch = "one"
           THEN LoadAndPlay(current_index)
           ELSE IF branch = "shuffle"
           THEN IF RandomIndices(n) = {}
                THEN /\ UNCHANGED <<current_index, current_media, engine_playing, engine_failed,
                                    trackMetadata, playButtonIcon>>
                     /\ Raises("ValueError")
                ELSE \E i \in RandomIndices(n) : LoadAndPlay(i)
           ELSE IF SequentialStops(current_index, n, loop_mode)
                THEN /\ current_index' = SequentialIndex(current_index, n, loop_mode)
                     /\ engine_playing' = FALSE
                     /\ engine_failed' = FALSE
                     /\ playButtonIcon' = "play"
                     /\ UNCHANGED <<current_media, trackMetadata>>
                     /\ Returns
                ELSE LoadAndPlay(SequentialIndex(current_index, n, loop_mode))
    /\ UNCHANGED <<folderAudioFiles, loop_mode, shuffle, shuffleButtonText,
                   loopButtonText, fileDockVisible>>
    /\ ResetNav

----------------------------------------------------------------------------
(* MusicPlayer.play_pause *)

play_pause ==
    /\ alive
    /\ UNCHANGED pureVars
    /\ lastOp' = Op("play_pause")
    /\ IF engine_playing
       THEN /\ engine_playing' = FALSE
            /\ UNCHANGED engine_failed
            /\ playButtonIcon' = "play"
       ELSE \* play() starts the loaded media, if any
            /\ engine_playing' = (current_media # "")
            /\ engine_failed' = FALSE
            /\ playButtonIcon' = "pause"
    /\ UNCHANGED <<folderAudioFiles, current_index, loop_mode, shuffle,
                   trackMetadata, current_media, shuffleButtonText,
                   loopButtonText, fileDockVisible, mediaEndedQueue, endedFor>>
    /\ Returns
    /\ UNCHANGED navVars

----------------------------------------------------------------------------
(* MusicPlayer.toggle_shuffle, MusicPlayer.toggle_loop *)

\* variant: a two-state cycle
NextLoopModeTwoState(m) == (m + 1) % 2

NextLoopMode(m) == (m + 1) % 3

toggle_shuffle ==
    /\ alive
    /\ UNCHANGED pureVars
    /\ lastOp' = Op("toggle_shuffle")
    /\ shuffle' = ~shuffle
    /\ shuffleButtonText' = ShuffleText(shuffle')
    /\ loopButtonText' = LoopText(loop_mode)
    /\ UNCHANGED <<folderAudioFiles, current_index, loop_mode, trackMetadata,
                   current_media, engine_playing, engine_failed, playButtonIcon,
                   fileDockVisible, mediaEndedQueue, endedFor>>
    /\ Returns
    /\ UNCHANGED navVars

toggle_loop ==
    /\ alive
    /\ UNCHANGED pureVars
    /\ lastOp' = Op("toggle_loop")
    /\ loop_mode' = NextLoopMode(loop_mode)
    /\ shuffleButtonText' = ShuffleText(shuffle)
    /\ loopButtonText' = LoopText(loop_mode')
    /\ UNCHANGED <<folderAudioFiles, current_index, shuffle, trackMetadata,
                   current_media, engine_playing, engine_failed, playButtonIcon,
                   fileDockVisible, mediaEndedQueue, endedFor>>
    /\ Returns
    /\ UNCHANGED navVars

----------------------------------------------------------------------------
(* MusicPlayer.update_position: the 1000 ms timer; update_status_bar reads *)
(* the queue only behind its guards                                        *)

\* update_status_bar reads folderAudioFiles[current_index] only when the
\* queue is non-empty and current_index < len(folderAudioFiles)
StatusBarReads(q, i) == q # <<>> /\ i < Len(q)

update_position ==
    /\ alive
    /\ UNCHANGED pureVars
    /\ lastOp' = Op("update_position")
    /\ IF StatusBarReads(folderAudioFiles, current_index)
          /\ ~PyIndexOk(folderAudioFiles, current_index)
       THEN Raises("IndexError")
       ELSE Returns
    /\ UNCHANGED progVars
    /\ UNCHANGED navVars

----------------------------------------------------------------------------

Next ==
    \/ open_folder
    \/ open_file
    \/ onFileTreeDoubleClicked
    \/ next_track
    \/ previous_track
    \/ on_media_end
    \/ engine_error
    \/ handle_media_ended
    \/ play_pause
    \/ toggle_shuffle
    \/ toggle_loop
    \/ update_position

Spec == Init /\ [][Next]_vars

\* the same program, recording endedFor instead of lastOp
InitStale ==
    /\ InitPlayer
    /\ lastOp = NoOp
    /\ mutagenPresent = TRUE
    /\ tagFile = UntaggedFile
    /\ tagResult = NoTagResult
    /\ dirFolder = Folder(<<>>, NoTrck)
    /\ dirMeta = NoDirMeta

SpecStale == InitStale /\ [][Next]_vars

TypeOK ==
    /\ current_index \in 0..3
    /\ loop_mode \in 0..2
    /\ shuffle \in BOOLEAN
    /\ mediaEndedQueue \in 0..MaxPending

----------------------------------------------------------------------------
(* extractMetadata applied to one file *)

FrameIds == {"TIT2", "TPE1", "TALB", "TDRC", "TYER", "APIC", "TRCK", "COMM"}
FrameDescs == {"", "b"}

\* the text of each frame: distinct per key; a track number for TRCK
FrameText(id, desc) ==
    IF id = "TRCK"
    THEN IF desc = "" THEN <<"1">> ELSE <<"2", "/", "3">>
    ELSE <<id, desc>>

FrameAlphabet == {Frame(id, desc, FrameText(id, desc), FALSE) :
                     id \in FrameIds, desc \in FrameDescs}

\* audio.tags is a dict: every key occurs once
DistinctSeqs(S, n) ==
    {f \in UNION {[1..k -> S] : k \in 0..n} :
        \A i, j \in DOMAIN f : f[i] = f[j] => i = j}

TagFiles == {TagFile("ok", frames) : frames \in DistinctSeqs(FrameAlphabet, MaxFrames)}

InitMeta ==
    /\ InitPlayer
    /\ lastOp = "__init__"
    /\ mutagenPresent \in BOOLEAN
    /\ tagFile \in TagFiles
    /\ tagResult = NoTagResult
    /\ dirFolder = Folder(<<>>, NoTrck)
    /\ dirMeta = NoDirMeta

extract_metadata ==
    /\ ~tagResult.done
    /\ tagResult' = [done |-> TRUE, meta |-> extractMetadata(mutagenPresent, tagFile)]
    /\ UNCHANGED <<mutagenPresent, tagFile, dirFolder, dirMeta>>
    /\ UNCHANGED progVars
    /\ UNCHANGED navVars
    /\ UNCHANGED <<err, alive, lastOp>>

NextMeta == extract_metadata

SpecMeta == InitMeta /\ [][NextMeta]_vars

----------------------------------------------------------------------------
(* open_folder applied to one folder *)

DirEntries == AudioPaths \cup {"/m/dir.mp3", "/m/n.txt"}

AlbumFrame(fails) == Frame("TALB", "", <<"album">>, fails)
TitleFrame == Frame("TIT2", "", <<"title">>, FALSE)
TrckFrame(text, fails) == Frame("TRCK", "", text, fails)

\* what a file of a folder may hold
FolderFiles ==
    { UnreadableFile,
      TagFile("none", <<>>),
      UntaggedFile,
      TagFile("ok", <<TitleFrame, TrckFrame(<<"2">>, FALSE)>>),
      TagFile("ok", <<TrckFrame(<<" ", "1", " ", "/", "3">>, FALSE)>>),
      TagFile("ok", <<TrckFrame(<<"x">>, FALSE)>>),
      TagFile("ok", <<TrckFrame(<<"/", "3">>, FALSE)>>),
      TagFile("ok", <<TitleFrame, AlbumFrame(TRUE), TrckFrame(<<"1">>, FALSE)>>),
      TagFile("ok", <<TitleFrame, TrckFrame(<<"1">>, TRUE)>>) }

InListing(listing, p) == \E k \in DOMAIN listing : listing[k] = p

\* the folders: any listing of at most MaxListing entries; a directory
\* cannot be parsed, a non-audio file holds no tags
DirFolders ==
    {[listing |-> listing,
      files |-> [p \in TreeEntries |->
                    IF p \in AudioPaths /\ InListing(listing, p) THEN held[p]
                    ELSE IF IsFile[p] THEN UntaggedFile ELSE UnreadableFile]] :
        listing \in DistinctSeqs(DirEntries, MaxListing),
        held \in [AudioPaths -> FolderFiles]}

InitBuild ==
    /\ InitPlayer
    /\ lastOp = "__init__"
    /\ mutagenPresent \in BOOLEAN
    /\ tagFile = UntaggedFile
    /\ tagResult = NoTagResult
    /\ dirFolder \in DirFolders
    /\ dirMeta = NoDirMeta

\* open_folder on dirFolder, keeping what its loop read
open_dir ==
    /\ alive
    /\ ~dirMeta.done
    /\ lastOp' = Op("open_folder")
    /\ OpenFolderChosen(dirFolder)
    /\ dirMeta' = [done |-> TRUE,
                   metas |-> [p \in Visited(mutagenPresent, dirFolder,
                                            FilterAudio(dirFolder.listing)) |->
                                extractMetadata(mutagenPresent, dirFolder.files[p])]]
    /\ UNCHANGED <<mutagenPresent, tagFile, tagResult, dirFolder>>

NextBuild == open_dir

SpecBuild == InitBuild /\ [][NextBuild]_vars

----------------------------------------------------------------------------
(* Properties *)

QueueLen == Len(folderAudioFiles)
AtLastIndex == folderAudioFiles # <<>> /\ current_index = QueueLen - 1

\* a folder with no file of a supported extension was opened
OpensFolderWithoutAudio ==
    /\ alive
    /\ \E folder \in Folders :
          FilterAudio(folder.listing) = <<>> /\ OpenFolderChosen(folder)

\* C1: opening a folder without audio files completes without raising and
\* leaves the queue empty, the engine stopped and the play button shown.
C1_EmptyFolderCompletes ==
    [][OpensFolderWithoutAudio =>
          /\ err' = "none" /\ alive'
          /\ folderAudioFiles' = <<>>
          /\ ~engine_playing'
          /\ playButtonIcon' = "play"]_vars

\* C2: whenever the queue is non-empty the cursor is a valid index of it.
C2_CursorInRange ==
    folderAudioFiles # <<>> => (0 <= current_index /\ current_index < QueueLen)

\* previous_track wrapped from index 0 to the last index of a 3-track queue
C2_Witness ==
    /\ QueueLen = 3 /\ current_index = 2
    /\ lastOp = "previous_track" /\ idxBefore = 0

\* C3: no handler reads the queue at an index outside [0, len(queue)), so no
\* handler ever leaves with an IndexError.
C3_NoIndexError == err # "IndexError"

\* C4: loop Off, shuffle off, end of media on the last index: the engine is
\* stopped, the play button shown, nothing is loaded or played and the cursor
\* stays on the last index.
C4_StopsAtEnd ==
    [][(handle_media_ended /\ loop_mode = 0 /\ ~shuffle /\ AtLastIndex) =>
          /\ ~engine_playing'
          /\ playButtonIcon' = "play"
          /\ current_media' = current_media
          /\ trackMetadata' = trackMetadata
          /\ current_index' = QueueLen - 1
          /\ err' = "none"]_vars

\* the end of a single-track queue was reached while the pause icon was shown
C4_Witness ==
    /\ lastOp = "handle_media_ended" /\ err = "none"
    /\ loop_mode = 0 /\ ~shuffle
    /\ QueueLen = 1 /\ current_index = 0
    /\ ~engine_playing /\ playButtonIcon = "play"

\* C5: with loop One an end of media never moves the cursor, whatever the
\* shuffle flag; the track under the cursor is loaded and played.
C5_LoopOneKeepsIndex ==
    [][(handle_media_ended /\ loop_mode = 2) =>
          /\ current_index' = current_index
          /\ folderAudioFiles # <<>> =>
                /\ current_media' = folderAudioFiles[current_index + 1]
                /\ engine_playing'
                /\ err' = "none"]_vars

\* loop One with shuffle on replayed the middle track of a 3-track queue
C5_Witness ==
    /\ lastOp = "handle_media_ended" /\ err = "none"
    /\ loop_mode = 2 /\ shuffle
    /\ QueueLen = 3 /\ current_index = 1
    /\ current_media = folderAudioFiles[2] /\ engine_playing

\* C6: loop All, shuffle off: an end of media on the last index wraps to
\* index 0 and plays queue[0]; on any other index it advances by one.
C6_LoopAllWraps ==
    [][(handle_media_ended /\ loop_mode = 1 /\ ~shuffle /\ folderAudioFiles # <<>>) =>
          /\ current_index' = IF current_index = QueueLen - 1 THEN 0
                              ELSE current_index + 1
          /\ current_media' = folderAudioFiles[current_index' + 1]
          /\ engine_playing'
          /\ err' = "none"]_vars

\* loop All wrapped to the first track of a queue of at least two tracks
\* (sequential play never reaches index 0 otherwise)
C6_Witness ==
    /\ lastOp = "handle_media_ended" /\ err = "none"
    /\ loop_mode = 1 /\ ~shuffle
    /\ QueueLen = 3 /\ current_index = 0
    /\ current_media = folderAudioFiles[1] /\ engine_playing

\* shuffle on, loop Off or All: an end of media moves the cursor to some
\* index of the queue, loads and plays it and never stops
C7_ShuffleStep ==
    (handle_media_ended /\ shuffle /\ loop_mode # 2 /\ folderAudioFiles # <<>>) =>
          /\ current_index' \in 0..(QueueLen - 1)
          /\ current_media' = folderAudioFiles[current_index' + 1]
          /\ engine_playing'
          /\ err' = "none"

\* every index of the queue, the current one included, is a possible outcome
C7_EveryIndexPossible ==
    (alive /\ mediaEndedQueue > 0 /\ shuffle /\ loop_mode # 2) =>
        \A j \in 0..(QueueLen - 1) :
            ENABLED (handle_media_ended /\ current_index' = j)

\* C7: shuffle on, loop Off or All: an end of media lands on an index of the
\* queue and plays it, and every index of the queue is a possible outcome.
C7_ShuffleAnyIndex == [][C7_ShuffleStep]_vars /\ []C7_EveryIndexPossible

\* shuffle with loop Off picked the last track of a 3-track queue and plays it
C7_Witness ==
    /\ lastOp = "handle_media_ended" /\ err = "none"
    /\ loop_mode = 0 /\ shuffle
    /\ QueueLen = 3 /\ current_index = 2
    /\ current_media = folderAudioFiles[3] /\ engine_playing

\* next_track on a non-empty queue of length N moves the cursor to
\* (current_index + 1) mod N whatever the modes, loads and plays that track
C8_NextStep ==
    (next_track /\ folderAudioFiles # <<>>) =>
          /\ current_index' = IF current_index = QueueLen - 1 THEN 0
                              ELSE current_index + 1
          /\ current_media' = folderAudioFiles[current_index' + 1]
          /\ engine_playing'
          /\ playButtonIcon' = "pause"

\* N consecutive calls bring the cursor back to where the run started
C8_RunReturns ==
    (folderAudioFiles # <<>> /\ lastNav = "next" /\ nextRun = QueueLen) =>
        current_index = runStart

\* C8: next_track moves to (current_index + 1) mod N and plays; a run of N
\* consecutive calls returns the cursor to its starting value.
C8_NextWraps == [][C8_NextStep]_vars /\ []C8_RunReturns

\* three consecutive next_track calls on a 3-track queue, started in the
\* middle, with loop Off
C8_Witness ==
    /\ lastNav = "next" /\ nextRun = 3 /\ QueueLen = 3
    /\ runStart = 1 /\ current_index = 1 /\ loop_mode = 0

\* C9: previous_track directly after next_track, and next_track directly
\* after previous_track, restore the cursor; neither changes the queue.
C9_PreviousInvertsNext ==
    [][/\ (previous_track /\ lastNav = "next" /\ folderAudioFiles # <<>>) =>
              current_index' = idxBefore
       /\ (next_track /\ lastNav = "previous" /\ folderAudioFiles # <<>>) =>
              current_index' = idxBefore
       /\ (next_track \/ previous_track) =>
              folderAudioFiles' = folderAudioFiles]_vars

\* next_track wrapped from the last index to 0 of a 3-track queue
C9_Witness ==
    /\ lastOp = "next_track" /\ lastNav = "next"
    /\ QueueLen = 3 /\ idxBefore = 2 /\ current_index = 0

\* C10: double-clicking an audio file that is in the queue moves the cursor
\* to its position and leaves the queue alone; one that is not in the queue
\* is appended (length + 1, earlier entries in place) and the cursor moves to
\* the new last position. Either way that file is loaded and played.
C10_JumpTo ==
    [][\A p \in TreeEntries :
          (alive /\ fileDockVisible /\ IsFile[p] /\ HasAudioExt(p) /\ DoubleClicked(p)) =>
              /\ IF \E k \in 1..QueueLen : folderAudioFiles[k] = p
                 THEN folderAudioFiles' = folderAudioFiles
                 ELSE /\ Len(folderAudioFiles') = QueueLen + 1
                      /\ SubSeq(folderAudioFiles', 1, QueueLen) = folderAudioFiles
                      /\ current_index' = QueueLen
              /\ current_index' \in 0..(Len(folderAudioFiles') - 1)
              /\ folderAudioFiles'[current_index' + 1] = p
              /\ current_media' = p
              /\ engine_playing']_vars

\* a double-click appended a third track to a 2-track queue
C10_Witness ==
    /\ lastOp = "onFileTreeDoubleClicked" /\ err = "none"
    /\ QueueLen = 3 /\ current_index = 2
    /\ current_media = folderAudioFiles[3] /\ engine_playing
    /\ trackMetadata[2] = folderAudioFiles[3]
    /\ 1 \notin DOMAIN trackMetadata

----------------------------------------------------------------------------
(* Properties of the queue construction and of extractMetadata *)

\* position of an entry in a sequence without repetitions
PosIn(seq, x) == CHOOSE k \in 1..Len(seq) : seq[k] = x

Elems(seq) == {seq[k] : k \in 1..Len(seq)}

\* the track number the metadata of a path of dirFolder gives
DirTrack(p) == extractMetadata(mutagenPresent, dirFolder.files[p]).track
DirHasNumber(p) == ~DirTrack(p).none /\ DirTrack(p).str # <<>> /\ IntOk(DirTrack(p).str)
DirNumber(p) == IntVal(DirTrack(p).str)

\* the queue holds exactly the paths of cands, each once, ordered by track
\* number with ties in listing order if every one has a number, and by path
\* otherwise
OrderedQueueOf(cands) ==
    /\ Elems(folderAudioFiles) = cands
    /\ Len(folderAudioFiles) = Cardinality(cands)
    /\ \A i, j \in 1..Len(folderAudioFiles) :
          i < j =>
             LET a == folderAudioFiles[i]
                 b == folderAudioFiles[j]
             IN  IF \A p \in cands : DirHasNumber(p)
                 THEN \/ DirNumber(a) < DirNumber(b)
                      \/ /\ DirNumber(a) = DirNumber(b)
                         /\ PosIn(dirFolder.listing, a) < PosIn(dirFolder.listing, b)
                 ELSE LexRank[a] < LexRank[b]

\* C11: the queue open_folder builds is a permutation of exactly the files of
\* the directory that have a supported extension, sorted by track number
\* (stable) if every one has an integer track number and by path otherwise.
C11_QueueOfAudioFiles ==
    dirMeta.done =>
        OrderedQueueOf({p \in Elems(dirFolder.listing) : IsFile[p] /\ HasAudioExt(p)})

\* the same ordering, of the listed entries with a supported extension,
\* directories included
C11_QueueOfAudioEntries ==
    dirMeta.done =>
        OrderedQueueOf({p \in Elems(dirFolder.listing) : HasAudioExt(p)})

----------------------------------------------------------------------------

\* open_file or open_folder, the dialog not cancelled, replaces the queue
ReplacesQueue ==
    \/ lastOp' = "open_file" /\ \E file_path \in AudioPaths : OpenFileChosen(file_path)
    \/ lastOp' = "open_folder" /\ \E folder \in Folders : OpenFolderChosen(folder)

\* C12: when open_folder or open_file replaces the queue the metadata cache
\* is cleared: afterwards it holds no entry read for a track of the previous
\* queue, only the entry just read for the new current track.
C12_CacheCleared ==
    [][ReplacesQueue =>
          \A i \in DOMAIN trackMetadata' :
             /\ i = current_index'
             /\ PyIndexOk(folderAudioFiles', i)
             /\ trackMetadata'[i] = PyGet(folderAudioFiles', i)]_vars

\* the same, of open_folder alone
C12_FolderClearsCache ==
    [][(lastOp' = "open_folder" /\ \E folder \in Folders : OpenFolderChosen(folder)) =>
          \A i \in DOMAIN trackMetadata' :
             /\ i = current_index'
             /\ PyIndexOk(folderAudioFiles', i)
             /\ trackMetadata'[i] = PyGet(folderAudioFiles', i)]_vars

----------------------------------------------------------------------------

\* the engine failed to open the current track, another track follows it in
\* the queue, and no signal is queued for the control thread: nothing but a
\* user command will run
AtRestOnFailedTrack ==
    /\ alive
    /\ engine_failed
    /\ current_media \in Unplayable
    /\ QueueLen >= 2
    /\ PyIndexOk(folderAudioFiles, current_index)
    /\ PyGet(folderAudioFiles, current_index) = current_media
    /\ mediaEndedQueue = 0

\* C13: when the engine fails to open the track being loaded the transport
\* does not crash and does not stay on the failed track: it moves on to the
\* following index, so it is never at rest on a track the engine failed on.
C13_MovesOnAfterFailure == ~AtRestOnFailedTrack

----------------------------------------------------------------------------

\* the cycle Off -> All -> One -> Off of the loop modes 0, 1, 2
LoopCycle(m) == CASE m = 0 -> 1 [] m = 1 -> 2 [] m = 2 -> 0
LoopName(m) == CASE m = 0 -> "Off" [] m = 1 -> "All" [] m = 2 -> "One"
ShuffleName(s) == IF s THEN "On" ELSE "Off"

\* the queue, the cursor, the cache and the engine are as they were, the
\* handler returned and the button texts are those of the flags
OnlyFlagsChanged ==
    /\ folderAudioFiles' = folderAudioFiles
    /\ current_index' = current_index
    /\ trackMetadata' = trackMetadata
    /\ current_media' = current_media
    /\ engine_playing' = engine_playing
    /\ engine_failed' = engine_failed
    /\ mediaEndedQueue' = mediaEndedQueue
    /\ playButtonIcon' = playButtonIcon
    /\ err' = "none" /\ alive'
    /\ shuffleButtonText' = ShuffleName(shuffle')
    /\ loopButtonText' = LoopName(loop_mode')

\* C14: toggle_shuffle only negates shuffle and toggle_loop only advances
\* loop_mode along Off -> All -> One -> Off; neither changes the queue,
\* current_index, the metadata cache or the engine's media and playing
\* state, and the button labels equal the flags after each call.
C14_TogglesOnlyFlags ==
    [][/\ toggle_shuffle =>
             /\ shuffle' = ~shuffle
             /\ loop_mode' = loop_mode
             /\ OnlyFlagsChanged
       /\ toggle_loop =>
             /\ loop_mode' = LoopCycle(loop_mode)
             /\ LoopCycle(LoopCycle(loop_mode')) = loop_mode
             /\ shuffle' = shuffle
             /\ OnlyFlagsChanged]_vars

\* toggle_loop has brought the mode from One back to Off, shuffle switched
\* on, on a playing queue of three tracks with the cursor in the middle
C14_Witness ==
    /\ lastOp = "toggle_loop"
    /\ loop_mode = 0
    /\ loopButtonText = "Off"
    /\ shuffle
    /\ shuffleButtonText = "On"
    /\ engine_playing
    /\ QueueLen = 3
    /\ current_index = 1
    /\ DOMAIN trackMetadata = {0, 1}

----------------------------------------------------------------------------

\* the frames extractMetadata reads: those one of its branches matches
Matched(frame) ==
    frame.id \in {"TIT2", "TPE1", "TALB", "TDRC", "TYER", "APIC", "TRCK"}

\* extraction of the file meets a failure: no library, no parse, no tags, or
\* an exception while a matched frame is read
ExtractionFails(lib, file) ==
    \/ ~lib
    \/ file.parse # "ok"
    \/ file.frames = <<>>
    \/ \E k \in DOMAIN file.frames : Matched(file.frames[k]) /\ file.frames[k].fails

\* the same, the exceptions raised while a TRCK frame is read left out
FailsOutsideTrck(lib, file) ==
    \/ ~lib
    \/ file.parse # "ok"
    \/ file.frames = <<>>
    \/ \E k \in DOMAIN file.frames :
          /\ Matched(file.frames[k])
          /\ file.frames[k].fails
          /\ file.frames[k].id # "TRCK"

NotTrck(frame) == frame.id # "TRCK"
WithoutTrck(file) == TagFile(file.parse, SelectSeq(file.frames, NotTrck))
LastTrckFails(file) ==
    \E k \in DOMAIN file.frames :
       /\ file.frames[k].id = "TRCK"
       /\ file.frames[k].fails
       /\ \A j \in DOMAIN file.frames : j > k => file.frames[j].id # "TRCK"

\* open_folder returned and its queue holds every candidate of the listing
QueueHoldsEveryCandidate ==
    /\ Elems(folderAudioFiles) = Elems(FilterAudio(dirFolder.listing))
    /\ Len(folderAudioFiles) = Len(FilterAudio(dirFolder.listing))
    /\ FilterAudio(dirFolder.listing) # <<>> => err = "none" /\ alive

\* C15: extractMetadata never raises and returns a record whose six fields
\* are all absent when the library is absent, the file cannot be parsed, has
\* no tags, or an exception occurs part-way through extraction; an unreadable
\* file does not abort open_folder and is still in the queue.
C15_AllAbsentOnFailure ==
    dirMeta.done =>
        /\ \A p \in DOMAIN dirMeta.metas :
              ExtractionFails(mutagenPresent, dirFolder.files[p]) =>
                 dirMeta.metas[p] = AllNone
        /\ QueueHoldsEveryCandidate

\* C15, amended: the record is all absent when the library is absent, the
\* file cannot be parsed, has no tags, or an exception occurs while a frame
\* other than TRCK is read; an exception while a TRCK frame is read leaves
\* only track absent, the other fields being those the other frames give;
\* every candidate, unreadable or not, is in the queue open_folder builds.
C15_AllAbsentUnlessTrckFails ==
    dirMeta.done =>
        /\ \A p \in DOMAIN dirMeta.metas :
              LET file == dirFolder.files[p]
                  meta == dirMeta.metas[p]
                  others == extractMetadata(mutagenPresent, WithoutTrck(file))
              IN  /\ FailsOutsideTrck(mutagenPresent, file) => meta = AllNone
                  /\ ~FailsOutsideTrck(mutagenPresent, file) =>
                        /\ LastTrckFails(file) => meta.track = None
                        /\ \A fld \in {"title", "artist", "album", "year", "artwork"} :
                              meta[fld] = others[fld]
        /\ QueueHoldsEveryCandidate

\* open_folder has read a file whose album frame raises after its title was
\* read, after a file with a track number, and an unreadable file follows:
\* the record read is all absent and the three files are in the queue
C15_Witness ==
    /\ dirMeta.done
    /\ mutagenPresent
    /\ dirFolder.listing = <<"/m/a.mp3", "/m/c.flac", "/m/B.MP3">>
    /\ dirFolder.files["/m/a.mp3"] = TagFile("ok", <<TitleFrame, TrckFrame(<<"2">>, FALSE)>>)
    /\ dirFolder.files["/m/c.flac"] =
          TagFile("ok", <<TitleFrame, AlbumFrame(TRUE), TrckFrame(<<"1">>, FALSE)>>)
    /\ dirFolder.files["/m/B.MP3"] = UnreadableFile
    /\ DOMAIN dirMeta.metas = {"/m/a.mp3", "/m/c.flac"}
    /\ dirMeta.metas["/m/c.flac"] = AllNone
    /\ dirMeta.metas["/m/a.mp3"].title = Str(<<"title">>)
    /\ folderAudioFiles = <<"/m/B.MP3", "/m/a.mp3", "/m/c.flac">>

----------------------------------------------------------------------------

\* the frame ids each field but track is read from
FieldIds(field) ==
    CASE field = "title" -> {"TIT2"}
      [] field = "artist" -> {"TPE1"}
      [] field = "album" -> {"TALB"}
      [] field = "year" -> {"TDRC", "TYER"}
      [] field = "artwork" -> {"APIC"}

\* the positions, in iteration order, of the frames a field is read from
MatchesOf(frames, field) == {k \in DOMAIN frames : frames[k].id \in FieldIds(field)}

Min(S) == CHOOSE x \in S : \A y \in S : x <= y
Max(S) == CHOOSE x \in S : \A y \in S : x >= y

\* C16: when several frames of a file match the same field, extractMetadata
\* returns for that field the value of the first matching frame in tag
\* iteration order.
C16_FirstMatchWins ==
    (tagResult.done /\ mutagenPresent) =>
        \A field \in {"title", "artist", "album", "year", "artwork"} :
           LET at == MatchesOf(tagFile.frames, field)
           IN  at # {} => tagResult.meta[field] = Str(tagFile.frames[Min(at)].text)

\* what the loop does: the last matching frame gives the value
C16_LastMatchWins ==
    (tagResult.done /\ mutagenPresent) =>
        \A field \in {"title", "artist", "album", "year", "artwork"} :
           LET at == MatchesOf(tagFile.frames, field)
           IN  at # {} => tagResult.meta[field] = Str(tagFile.frames[Max(at)].text)

----------------------------------------------------------------------------

\* the control thread processes a mediaEnded signal that the engine emitted
\* for another media than the one a later load has made current
ProcessesStaleEnd ==
    /\ handle_media_ended
    /\ endedFor # <<>>
    /\ Head(endedFor) # current_media
    /\ PyIndexOk(folderAudioFiles, current_index)
    /\ PyGet(folderAudioFiles, current_index) = current_media

\* C17: an end-of-media signal emitted for track A and still queued when a
\* newer load has made a different track B current is not applied to B: when
\* it is processed current_index still designates B, B is neither reloaded
\* nor skipped nor stopped, and no track refresh fires.
C17_StaleEndIgnored ==
    [][ProcessesStaleEnd =>
          /\ current_index' = current_index
          /\ current_media' = current_media
          /\ engine_playing' = engine_playing
          /\ trackMetadata' = trackMetadata]_vars

====
